---- MODULE Spec2Model ----
(***************************************************************************)
(* A model of the LSP client core of mcp-language-server:                  *)
(*   - the document synchronizer of lsp.Client (OpenFile, NotifyChange,    *)
(*     CloseFile, CloseAllFiles) called from concurrent goroutines;        *)
(*   - the lifecycle of the host (main, cleanup) and of the client         *)
(*     (InitializeLSPClient, Close).                                       *)
(* Every goroutine is a process p with a program counter pc[p]; a step is  *)
(* one statement, or one critical section body, of the Go source.          *)
(***************************************************************************)
EXTENDS Integers, Sequences, FiniteSets, TLC

\* A string is a sequence of tokens; "file://" is one token, so that the
\* URI <-> path conversions are computed, not assumed.
Scheme == "file://"

\* The file paths the callers use. The second one itself starts with the
\* scheme token.
Paths == {<<"a">>, <<Scheme, "a">>}

\* The goroutines that call the document synchronizer (workspace watcher,
\* tool handlers).
Workers == {"w1", "w2"}

\* The goroutines of the host: main, the shutdown-trigger goroutine and the
\* parent monitor.
HostProcs == {"main", "trig", "mon"}

\* The goroutines that run cleanup (and so Client.Close).
Cleaners == {"main", "trig"}

Procs == Workers \cup HostProcs

\* Bound on the number of document-sync calls the workers start.
MaxCalls == 4

\* Bound on the number of files opened while the host runs.
MaxHostCalls == 1

NoProc == "free"
NoURI == <<>>

VARIABLES
    openFiles,      \* Client.openFiles: URI -> Version of the open files
    openFilesMu,    \* Client.openFilesMu: the goroutine holding it, or NoProc
    wire,           \* the messages written to the child's stdin, in order
    pc,             \* the statement each goroutine is at
    uri,            \* local `uri` of the running document-sync function
    version,        \* local `version` of NotifyChange
    filesToClose,   \* local `filesToClose` of CloseAllFiles (what is left of it)
    res,            \* the return site of the goroutine's last document-sync call
    cfRet,          \* where CloseFile returns to: "idle" or "caf_loop"
    cafRet,         \* where CloseAllFiles returns to
    calls,          \* number of calls the workers started
    period,         \* history: per URI, how often it was removed from openFiles
    myPeriod,       \* history: period[uri] when NotifyChange incremented
    cafN,           \* history: len(filesToClose) of the last CloseAllFiles
    cafSent,        \* history: didClose notifications that CloseAllFiles sent
    alone,          \* history: no other call overlapped the last CloseAllFiles
    lspClient,      \* mcpServer.lspClient is set (not nil)
    watching,       \* the workspace watcher runs and tools may be served
    done,           \* main's channel `done` is closed
    parentDeath,    \* main's channel `parentDeath` is closed
    sigChan,        \* signals buffered in `sigChan` (capacity 1)
    orphaned,       \* os.Getppid() differs from the initial one and is 1
    shutdownDone,   \* per cleanup: its channel `shutdownDone` is closed
    forcedKill,     \* per Close: its channel `forcedKill` is closed
    sdPc,           \* per cleanup: where its shutdown goroutine is
    fkPc,           \* per Close: where its forced-kill goroutine is
    child,          \* the language server process: "running" or "exited"
    stdinClosed,    \* number of successful c.stdin.Close()
    panicked,       \* a goroutine panicked: the host process crashed
    exitCode,       \* os.Exit's code, -1 while the host runs
    initResult,     \* what InitializeLSPClient returned: 0 none, -1 error, else the payload
    result,         \* local `result` of InitializeLSPClient: the payload received
    handlers,       \* the handlers of InitializeLSPClient are registered
    exitTried,      \* history: number of calls of Client.Exit
    kills,          \* history: number of calls of Process.Kill
    lateKill,       \* history: Process.Kill was called after Cmd.Wait had returned
    waited,         \* history: number of returns of Cmd.Wait
    latchCloses     \* history: per Close, the close(forcedKill) executed

syncVars == <<openFiles, openFilesMu, wire, pc, uri, version, filesToClose,
              res, cfRet, cafRet, calls, period, myPeriod, cafN, cafSent, alone>>

hostVars == <<lspClient, watching, done, parentDeath, sigChan, orphaned,
              shutdownDone, forcedKill, sdPc, fkPc, child, stdinClosed,
              panicked, exitCode, initResult, result, handlers, exitTried,
              kills, lateKill, waited, latchCloses>>

vars == <<syncVars, hostVars>>

----------------------------------------------------------------------------
\* Helpers

\* fmt.Sprintf("file://%s", filepath)
ToURI(filepath) == <<Scheme>> \o filepath

\* strings.TrimPrefix(s, "file://")
TrimPrefix(s) == IF Len(s) > 0 /\ Head(s) = Scheme THEN Tail(s) ELSE s

URIs == {ToURI(f) : f \in Paths}

IsOpen(u) == u \in DOMAIN openFiles

\* openFiles[u] = &OpenFileInfo{Version: v}
MapStore(m, u, v) == [x \in DOMAIN m \cup {u} |-> IF x = u THEN v ELSE m[x]]

\* delete(openFiles, u)
MapDelete(m, u) == [x \in DOMAIN m \ {u} |-> m[x]]

\* A JSON-RPC message as the child reads it. `per` is history only: the open
\* period of the URI in which a didChange got its version.
Msg(method, u, v, per) == [method |-> method, uri |-> u, version |-> v, per |-> per]

\* Notify writes one frame to the child's stdin.
Notify(w, m) == Append(w, m)

\* The return sites that return a non-nil error.
IsError(r) == r \in {"read_error", "notify_error", "unopened"}

\* All orders of a finite set (Go iterates a map in an unspecified order).
RECURSIVE Orders(_)
Orders(S) ==
    IF S = {} THEN {<<>>}
    ELSE UNION {{<<x>> \o s : s \in Orders(S \ {x})} : x \in S}

----------------------------------------------------------------------------
\* Control flow helpers

\* The host process runs: no goroutine panicked and os.Exit was not called.
\* Every step of a goroutine needs it.
Alive == panicked = "no" /\ exitCode = -1

Goto(p, l) == pc' = [pc EXCEPT ![p] = l]

Lock(p) == openFilesMu = NoProc /\ openFilesMu' = p

Unlock(p) == openFilesMu = p /\ openFilesMu' = NoProc

\* A worker starts a call: it is counted, and it overlaps every CloseAllFiles
\* in progress.
Begin(p, l, u, isCaf) ==
    /\ Alive
    /\ pc[p] = "idle"
    /\ calls < (IF watching THEN MaxHostCalls ELSE MaxCalls)
    /\ calls' = calls + 1
    /\ Goto(p, l)
    /\ uri' = [uri EXCEPT ![p] = u]
    /\ res' = [res EXCEPT ![p] = "none"]
    /\ alone' = [q \in Procs |->
                    q = p /\ isCaf /\ \A o \in Workers \ {p} : pc[o] = "idle"]

\* A top-level document-sync function returns at site r (uri keeps the URI
\* of the call until the goroutine's next call).
Return(p, r) ==
    /\ Goto(p, "idle")
    /\ res' = [res EXCEPT ![p] = r]
    /\ UNCHANGED uri

\* CloseFile returns at site r, to its caller or to the loop of CloseAllFiles
\* (which only logs the error).
CloseFileReturn(p, r) ==
    /\ Goto(p, cfRet[p])
    /\ res' = [res EXCEPT ![p] = r]
    /\ UNCHANGED uri

----------------------------------------------------------------------------
\* OpenFile

CallOpenFile(p, f) ==
    /\ Begin(p, "of_lock1", ToURI(f), FALSE)
    /\ UNCHANGED <<openFiles, openFilesMu, wire, version, filesToClose, cfRet,
                   cafRet, period, myPeriod, cafN, cafSent, hostVars>>

OpenFileLock(p) ==
    /\ Alive
    /\ pc[p] = "of_lock1"
    /\ Lock(p)
    /\ Goto(p, "of_check")
    /\ UNCHANGED <<openFiles, wire, uri, version, filesToClose, res, cfRet,
                   cafRet, calls, period, myPeriod, cafN, cafSent, alone, hostVars>>

\* OpenFile without its already-open return.
OpenFileCheckAlwaysOpens(p) ==
    /\ Alive
    /\ pc[p] = "of_check"
    /\ Unlock(p)
    /\ Goto(p, "of_read")
    /\ UNCHANGED <<res, uri, openFiles, wire, version, filesToClose, cfRet,
                   cafRet, calls, period, myPeriod, cafN, cafSent, alone, hostVars>>

OpenFileCheck(p) ==
    /\ Alive
    /\ pc[p] = "of_check"
    /\ Unlock(p)
    /\ IF IsOpen(uri[p])
       THEN Return(p, "already_open")
       ELSE Goto(p, "of_read") /\ UNCHANGED <<res, uri>>
    /\ UNCHANGED <<openFiles, wire, version, filesToClose, cfRet, cafRet,
                   calls, period, myPeriod, cafN, cafSent, alone, hostVars>>

OpenFileRead(p) ==
    /\ Alive
    /\ pc[p] = "of_read"
    /\ \E ok \in BOOLEAN :
        IF ok THEN Goto(p, "of_notify") /\ UNCHANGED <<res, uri>>
        ELSE Return(p, "read_error")
    /\ UNCHANGED <<openFiles, openFilesMu, wire, version, filesToClose, cfRet,
                   cafRet, calls, period, myPeriod, cafN, cafSent, alone, hostVars>>

\* OpenFile that records the file as open although its didOpen was not sent.
OpenFileNotifyKeepsEntry(p) ==
    /\ Alive
    /\ pc[p] = "of_notify"
    /\ \E ok \in BOOLEAN :
        IF ok
        THEN /\ wire' = Notify(wire, Msg("textDocument/didOpen", uri[p], 1, 0))
             /\ Goto(p, "of_lock2")
             /\ UNCHANGED <<res, uri, openFiles>>
        ELSE /\ Return(p, "notify_error")
             /\ openFiles' = MapStore(openFiles, uri[p], 1)
             /\ UNCHANGED wire
    /\ UNCHANGED <<openFilesMu, version, filesToClose, cfRet,
                   cafRet, calls, period, myPeriod, cafN, cafSent, alone, hostVars>>

OpenFileNotify(p) ==
    /\ Alive
    /\ pc[p] = "of_notify"
    /\ \E ok \in BOOLEAN :
        IF ok
        THEN /\ wire' = Notify(wire, Msg("textDocument/didOpen", uri[p], 1, 0))
             /\ Goto(p, "of_lock2")
             /\ UNCHANGED <<res, uri>>
        ELSE /\ Return(p, "notify_error")
             /\ UNCHANGED wire
    /\ UNCHANGED <<openFiles, openFilesMu, version, filesToClose, cfRet,
                   cafRet, calls, period, myPeriod, cafN, cafSent, alone, hostVars>>

OpenFileLock2(p) ==
    /\ Alive
    /\ pc[p] = "of_lock2"
    /\ Lock(p)
    /\ Goto(p, "of_store")
    /\ UNCHANGED <<openFiles, wire, uri, version, filesToClose, res, cfRet,
                   cafRet, calls, period, myPeriod, cafN, cafSent, alone, hostVars>>

OpenFileStore(p) ==
    /\ Alive
    /\ pc[p] = "of_store"
    /\ openFiles' = MapStore(openFiles, uri[p], 1)
    /\ Unlock(p)
    /\ Return(p, "opened")
    /\ UNCHANGED <<wire, version, filesToClose, cfRet, cafRet, calls, period,
                   myPeriod, cafN, cafSent, alone, hostVars>>

----------------------------------------------------------------------------
\* NotifyChange

CallNotifyChange(p, f) ==
    /\ Begin(p, "nc_read", ToURI(f), FALSE)
    /\ UNCHANGED <<openFiles, openFilesMu, wire, version, filesToClose, cfRet,
                   cafRet, period, myPeriod, cafN, cafSent, hostVars>>

NotifyChangeRead(p) ==
    /\ Alive
    /\ pc[p] = "nc_read"
    /\ \E ok \in BOOLEAN :
        IF ok THEN Goto(p, "nc_lock") /\ UNCHANGED <<res, uri>>
        ELSE Return(p, "read_error")
    /\ UNCHANGED <<openFiles, openFilesMu, wire, version, filesToClose, cfRet,
                   cafRet, calls, period, myPeriod, cafN, cafSent, alone, hostVars>>

NotifyChangeLock(p) ==
    /\ Alive
    /\ pc[p] = "nc_lock"
    /\ Lock(p)
    /\ Goto(p, "nc_incr")
    /\ UNCHANGED <<openFiles, wire, uri, version, filesToClose, res, cfRet,
                   cafRet, calls, period, myPeriod, cafN, cafSent, alone, hostVars>>

\* NotifyChange that opens the file itself when it is not open.
NotifyChangeIncrementUnopened(p) ==
    /\ Alive
    /\ pc[p] = "nc_incr"
    /\ Unlock(p)
    /\ openFiles' = MapStore(openFiles, uri[p],
                             IF IsOpen(uri[p]) THEN openFiles[uri[p]] + 1 ELSE 1)
    /\ version' = [version EXCEPT ![p] = openFiles'[uri[p]]]
    /\ myPeriod' = [myPeriod EXCEPT ![p] = period[uri[p]]]
    /\ Goto(p, "nc_notify")
    /\ UNCHANGED <<res, uri, wire, filesToClose, cfRet, cafRet, calls, period,
                   cafN, cafSent, alone, hostVars>>

NotifyChangeIncrement(p) ==
    /\ Alive
    /\ pc[p] = "nc_incr"
    /\ Unlock(p)
    /\ IF ~IsOpen(uri[p])
       THEN /\ Return(p, "unopened")
            /\ UNCHANGED <<openFiles, version, myPeriod>>
       ELSE /\ openFiles' = [openFiles EXCEPT ![uri[p]] = @ + 1]
            /\ version' = [version EXCEPT ![p] = openFiles[uri[p]] + 1]
            /\ myPeriod' = [myPeriod EXCEPT ![p] = period[uri[p]]]
            /\ Goto(p, "nc_notify")
            /\ UNCHANGED <<res, uri>>
    /\ UNCHANGED <<wire, filesToClose, cfRet, cafRet, calls, period, cafN,
                   cafSent, alone, hostVars>>

NotifyChangeNotify(p) ==
    /\ Alive
    /\ pc[p] = "nc_notify"
    /\ \E ok \in BOOLEAN :
        IF ok
        THEN /\ wire' = Notify(wire, Msg("textDocument/didChange", uri[p],
                                         version[p], myPeriod[p]))
             /\ Return(p, "changed")
        ELSE /\ Return(p, "notify_error")
             /\ UNCHANGED wire
    /\ version' = [version EXCEPT ![p] = 0]
    /\ myPeriod' = [myPeriod EXCEPT ![p] = 0]
    /\ UNCHANGED <<openFiles, openFilesMu, filesToClose, cfRet, cafRet, calls,
                   period, cafN, cafSent, alone, hostVars>>

----------------------------------------------------------------------------
\* CloseFile

CallCloseFile(p, f) ==
    /\ Begin(p, "cf_lock1", ToURI(f), FALSE)
    /\ cfRet' = [cfRet EXCEPT ![p] = "idle"]
    /\ UNCHANGED <<openFiles, openFilesMu, wire, version, filesToClose,
                   cafRet, period, myPeriod, cafN, cafSent, hostVars>>

CloseFileLock(p) ==
    /\ Alive
    /\ pc[p] = "cf_lock1"
    /\ Lock(p)
    /\ Goto(p, "cf_check")
    /\ UNCHANGED <<openFiles, wire, uri, version, filesToClose, res, cfRet,
                   cafRet, calls, period, myPeriod, cafN, cafSent, alone, hostVars>>

\* CloseFile without its already-closed return.
CloseFileCheckNeverClosed(p) ==
    /\ Alive
    /\ pc[p] = "cf_check"
    /\ Unlock(p)
    /\ Goto(p, "cf_notify")
    /\ UNCHANGED <<res, uri, openFiles, wire, version, filesToClose, cfRet,
                   cafRet, calls, period, myPeriod, cafN, cafSent, alone, hostVars>>

CloseFileCheck(p) ==
    /\ Alive
    /\ pc[p] = "cf_check"
    /\ Unlock(p)
    /\ IF ~IsOpen(uri[p])
       THEN CloseFileReturn(p, "already_closed")
       ELSE Goto(p, "cf_notify") /\ UNCHANGED <<res, uri>>
    /\ UNCHANGED <<openFiles, wire, version, filesToClose, cfRet, cafRet,
                   calls, period, myPeriod, cafN, cafSent, alone, hostVars>>

CloseFileNotify(p) ==
    /\ Alive
    /\ pc[p] = "cf_notify"
    /\ \E ok \in BOOLEAN :
        IF ok
        THEN /\ wire' = Notify(wire, Msg("textDocument/didClose", uri[p], 0, 0))
             /\ cafSent' = [cafSent EXCEPT ![p] =
                               IF cfRet[p] = "caf_loop" THEN @ + 1 ELSE @]
             /\ Goto(p, "cf_lock2")
             /\ UNCHANGED <<res, uri>>
        ELSE /\ CloseFileReturn(p, "notify_error")
             /\ UNCHANGED <<wire, cafSent>>
    /\ UNCHANGED <<openFiles, openFilesMu, version, filesToClose, cfRet,
                   cafRet, calls, period, myPeriod, cafN, alone, hostVars>>

CloseFileLock2(p) ==
    /\ Alive
    /\ pc[p] = "cf_lock2"
    /\ Lock(p)
    /\ Goto(p, "cf_delete")
    /\ UNCHANGED <<openFiles, wire, uri, version, filesToClose, res, cfRet,
                   cafRet, calls, period, myPeriod, cafN, cafSent, alone, hostVars>>

CloseFileDelete(p) ==
    /\ Alive
    /\ pc[p] = "cf_delete"
    /\ openFiles' = MapDelete(openFiles, uri[p])
    /\ period' = [period EXCEPT ![uri[p]] = IF IsOpen(uri[p]) THEN @ + 1 ELSE @]
    /\ Unlock(p)
    /\ CloseFileReturn(p, "closed")
    /\ UNCHANGED <<wire, version, filesToClose, cfRet, cafRet, calls,
                   myPeriod, cafN, cafSent, alone, hostVars>>

----------------------------------------------------------------------------
\* CloseAllFiles

CallCloseAllFiles(p) ==
    /\ Begin(p, "caf_lock", NoURI, TRUE)
    /\ cafRet' = [cafRet EXCEPT ![p] = "idle"]
    /\ UNCHANGED <<openFiles, openFilesMu, wire, version, filesToClose, cfRet,
                   period, myPeriod, cafN, cafSent, hostVars>>

CloseAllFilesLock(p) ==
    /\ Alive
    /\ pc[p] = "caf_lock"
    /\ Lock(p)
    /\ Goto(p, "caf_collect")
    /\ UNCHANGED <<openFiles, wire, uri, version, filesToClose, res, cfRet,
                   cafRet, calls, period, myPeriod, cafN, cafSent, alone, hostVars>>

\* CloseAllFiles going into its loop without releasing the lock.
CloseAllFilesCollectKeepsLock(p) ==
    /\ Alive
    /\ pc[p] = "caf_collect"
    /\ \E s \in Orders(DOMAIN openFiles) :
        /\ filesToClose' = [filesToClose EXCEPT ![p] =
                               [i \in 1..Len(s) |-> TrimPrefix(s[i])]]
        /\ cafN' = [cafN EXCEPT ![p] = Len(s)]
    /\ cafSent' = [cafSent EXCEPT ![p] = 0]
    /\ Goto(p, "caf_loop")
    /\ UNCHANGED <<openFiles, openFilesMu, wire, uri, version, res, cfRet,
                   cafRet, calls, period, myPeriod, alone, hostVars>>

CloseAllFilesCollect(p) ==
    /\ Alive
    /\ pc[p] = "caf_collect"
    /\ \E s \in Orders(DOMAIN openFiles) :
        /\ filesToClose' = [filesToClose EXCEPT ![p] =
                               [i \in 1..Len(s) |-> TrimPrefix(s[i])]]
        /\ cafN' = [cafN EXCEPT ![p] = Len(s)]
    /\ cafSent' = [cafSent EXCEPT ![p] = 0]
    /\ Unlock(p)
    /\ Goto(p, "caf_loop")
    /\ UNCHANGED <<openFiles, wire, uri, version, res, cfRet, cafRet, calls,
                   period, myPeriod, alone, hostVars>>

CloseAllFilesLoop(p) ==
    /\ Alive
    /\ pc[p] = "caf_loop"
    /\ IF filesToClose[p] = <<>>
       THEN /\ Goto(p, cafRet[p])
            /\ res' = [res EXCEPT ![p] = "closed_all"]
            /\ UNCHANGED <<uri, filesToClose, cfRet>>
       ELSE /\ uri' = [uri EXCEPT ![p] = ToURI(Head(filesToClose[p]))]
            /\ filesToClose' = [filesToClose EXCEPT ![p] = Tail(@)]
            /\ cfRet' = [cfRet EXCEPT ![p] = "caf_loop"]
            /\ Goto(p, "cf_lock1")
            /\ UNCHANGED res
    /\ UNCHANGED <<openFiles, openFilesMu, wire, version, cafRet, calls,
                   period, myPeriod, cafN, cafSent, alone, hostVars>>

----------------------------------------------------------------------------
\* The document synchronizer called by concurrent goroutines

\* The client's document state after NewClient.
ClientInit ==
    /\ openFiles = [u \in {} |-> 0]
    /\ openFilesMu = NoProc
    /\ wire = <<>>
    /\ uri = [p \in Procs |-> NoURI]
    /\ version = [p \in Procs |-> 0]
    /\ filesToClose = [p \in Procs |-> <<>>]
    /\ res = [p \in Procs |-> "none"]
    /\ cfRet = [p \in Procs |-> "idle"]
    /\ cafRet = [p \in Procs |-> "idle"]
    /\ calls = 0
    /\ period = [u \in URIs |-> 0]
    /\ myPeriod = [p \in Procs |-> 0]
    /\ cafN = [p \in Procs |-> 0]
    /\ cafSent = [p \in Procs |-> 0]
    /\ alone = [p \in Procs |-> FALSE]

\* The host's state when main has made its channels and the server value.
HostState ==
    /\ watching = FALSE
    /\ done = FALSE
    /\ parentDeath = FALSE
    /\ sigChan = 0
    /\ orphaned = FALSE
    /\ shutdownDone = [c \in Cleaners |-> FALSE]
    /\ forcedKill = [c \in Cleaners |-> FALSE]
    /\ sdPc = [c \in Cleaners |-> "off"]
    /\ fkPc = [c \in Cleaners |-> "off"]
    /\ stdinClosed = 0
    /\ panicked = "no"
    /\ exitCode = -1
    /\ initResult = 0
    /\ result = 0
    /\ handlers = FALSE
    /\ exitTried = 0
    /\ kills = 0
    /\ lateKill = FALSE
    /\ waited = 0
    /\ latchCloses = [c \in Cleaners |-> 0]

\* A client that is initialized and used by concurrent callers.
SyncInit ==
    /\ ClientInit
    /\ HostState
    /\ lspClient = TRUE
    /\ child = "running"
    /\ pc = [p \in Procs |-> IF p \in Workers THEN "idle" ELSE "off"]

SyncNext ==
    \E p \in Workers :
        \/ \E f \in Paths : CallOpenFile(p, f)
        \/ OpenFileLock(p)
        \/ OpenFileCheck(p)
        \/ OpenFileRead(p)
        \/ OpenFileNotify(p)
        \/ OpenFileLock2(p)
        \/ OpenFileStore(p)
        \/ \E f \in Paths : CallNotifyChange(p, f)
        \/ NotifyChangeRead(p)
        \/ NotifyChangeLock(p)
        \/ NotifyChangeIncrement(p)
        \/ NotifyChangeNotify(p)
        \/ \E f \in Paths : CallCloseFile(p, f)
        \/ CloseFileLock(p)
        \/ CloseFileCheck(p)
        \/ CloseFileNotify(p)
        \/ CloseFileLock2(p)
        \/ CloseFileDelete(p)
        \/ CallCloseAllFiles(p)
        \/ CloseAllFilesLock(p)
        \/ CloseAllFilesCollect(p)
        \/ CloseAllFilesLoop(p)

SpecSync == SyncInit /\ [][SyncNext]_vars

----------------------------------------------------------------------------
\* The host: variable groups

syncLocals == <<openFiles, openFilesMu, uri, version, filesToClose, res,
                cfRet, calls, period, myPeriod, cafN, cafSent, alone>>

chanVars == <<done, parentDeath, sigChan, orphaned, shutdownDone, forcedKill>>

goVars == <<sdPc, fkPc>>

procVars == <<child, stdinClosed, kills, lateKill, waited, latchCloses>>

initVars == <<lspClient, watching, initResult, result, handlers>>

endVars == <<panicked, exitCode, exitTried>>

\* The payloads an `initialize` response may carry.
Payloads == {1, 2}

\* A goroutine of the host calls CloseAllFiles, which returns to label l.
EnterCloseAllFiles(p, l) ==
    /\ Goto(p, "caf_lock")
    /\ cafRet' = [cafRet EXCEPT ![p] = l]
    /\ alone' = [q \in Procs |-> FALSE]

----------------------------------------------------------------------------
\* mcpServer.start, mcpServer.initializeLSP and Client.InitializeLSPClient,
\* run by main

\* start or initializeLSP returns an error to main.
StartFails == Goto("main", "m_failed")

InitChdir ==
    /\ Alive
    /\ pc["main"] = "m_start"
    /\ \E ok \in BOOLEAN : IF ok THEN Goto("main", "init_newclient") ELSE StartFails
    /\ UNCHANGED <<wire, cafRet, syncLocals, chanVars, goVars, procVars,
                   initVars, endVars>>

InitNewClient ==
    /\ Alive
    /\ pc["main"] = "init_newclient"
    /\ \E ok \in BOOLEAN :
        IF ok
        THEN /\ lspClient' = TRUE
             /\ child' = "running"
             /\ Goto("main", "ilc_send")
        ELSE /\ StartFails
             /\ UNCHANGED <<lspClient, child>>
    /\ UNCHANGED <<wire, cafRet, syncLocals, chanVars, goVars, stdinClosed,
                   kills, lateKill, waited, latchCloses, watching, initResult,
                   result, handlers, endVars>>

\* initializeLSP going on to the workspace watcher although InitializeLSPClient
\* returned an error.
InitializeFailsStartGoesOn ==
    /\ initResult' = -1
    /\ Goto("main", "init_watch")

\* InitializeLSPClient returns an error, and so does initializeLSP.
InitializeFails ==
    /\ initResult' = -1
    /\ StartFails

\* c.Call(ctx, "initialize", ...): the request is written.
InitializeCallSend ==
    /\ Alive
    /\ pc["main"] = "ilc_send"
    /\ \E ok \in BOOLEAN :
        IF ok
        THEN /\ wire' = Notify(wire, Msg("initialize", NoURI, 0, 0))
             /\ Goto("main", "ilc_wait")
             /\ UNCHANGED initResult
        ELSE /\ InitializeFails
             /\ UNCHANGED wire
    /\ UNCHANGED <<cafRet, syncLocals, chanVars, goVars, procVars, lspClient,
                   watching, result, handlers, endVars>>

\* c.Call(ctx, "initialize", ...): the response arrives, a result or an error.
InitializeCallReturn ==
    /\ Alive
    /\ pc["main"] = "ilc_wait"
    /\ \/ \E r \in Payloads :
            /\ child = "running"
            /\ result' = r
            /\ Goto("main", "ilc_notify")
            /\ UNCHANGED initResult
       \/ InitializeFails /\ UNCHANGED result
    /\ UNCHANGED <<wire, cafRet, syncLocals, chanVars, goVars, procVars,
                   lspClient, watching, handlers, endVars>>

\* c.Notify(ctx, "initialized", struct{}{})
InitializeNotify ==
    /\ Alive
    /\ pc["main"] = "ilc_notify"
    /\ \E ok \in BOOLEAN :
        IF ok
        THEN /\ wire' = Notify(wire, Msg("initialized", NoURI, 0, 0))
             /\ Goto("main", "ilc_register")
             /\ UNCHANGED initResult
        ELSE /\ InitializeFails
             /\ UNCHANGED wire
    /\ UNCHANGED <<cafRet, syncLocals, chanVars, goVars, procVars, lspClient,
                   watching, result, handlers, endVars>>

InitializeRegister ==
    /\ Alive
    /\ pc["main"] = "ilc_register"
    /\ handlers' = TRUE
    /\ Goto("main", "ilc_initialized")
    /\ UNCHANGED <<wire, cafRet, syncLocals, chanVars, goVars, procVars,
                   lspClient, watching, initResult, result, endVars>>

\* Client.Initialized sends the `initialized` notification.
Initialized(w) == Notify(w, Msg("initialized", NoURI, 0, 0))

\* err := c.Initialized(ctx, protocol.InitializedParams{})
InitializeInitialized ==
    /\ Alive
    /\ pc["main"] = "ilc_initialized"
    /\ \E ok \in BOOLEAN :
        IF ok
        THEN /\ wire' = Initialized(wire)
             /\ Goto("main", "ilc_specific")
             /\ UNCHANGED initResult
        ELSE /\ InitializeFails
             /\ UNCHANGED wire
    /\ UNCHANGED <<cafRet, syncLocals, chanVars, goVars, procVars, lspClient,
                   watching, result, handlers, endVars>>

\* The server-specific step (it may fail for typescript-language-server),
\* then return &result, nil.
InitializeReturn ==
    /\ Alive
    /\ pc["main"] = "ilc_specific"
    /\ \E ok \in BOOLEAN :
        IF ok
        THEN /\ initResult' = result
             /\ Goto("main", "init_watch")
        ELSE InitializeFails
    /\ UNCHANGED <<wire, cafRet, syncLocals, chanVars, goVars, procVars,
                   lspClient, watching, result, handlers, endVars>>

\* go s.workspaceWatcher.WatchWorkspace(...); client.WaitForServerReady(...)
InitWatch ==
    /\ Alive
    /\ pc["main"] = "init_watch"
    /\ watching' = TRUE
    /\ Goto("main", "st_tools")
    /\ UNCHANGED <<wire, cafRet, syncLocals, chanVars, goVars, procVars,
                   lspClient, initResult, result, handlers, endVars>>

StartRegisterTools ==
    /\ Alive
    /\ pc["main"] = "st_tools"
    /\ \E ok \in BOOLEAN : IF ok THEN Goto("main", "st_serve") ELSE StartFails
    /\ UNCHANGED <<wire, cafRet, syncLocals, chanVars, goVars, procVars,
                   initVars, endVars>>

\* server.ServeStdio returns: nil when its input ends, or an error.
StartServeReturns ==
    /\ Alive
    /\ pc["main"] = "st_serve"
    /\ \E ok \in BOOLEAN : IF ok THEN Goto("main", "m_wait") ELSE StartFails
    /\ UNCHANGED <<wire, cafRet, syncLocals, chanVars, goVars, procVars,
                   initVars, endVars>>

----------------------------------------------------------------------------
\* main

\* server.start failed: main calls cleanup.
MainStartFailed ==
    /\ Alive
    /\ pc["main"] = "m_failed"
    /\ Goto("main", "cl_begin")
    /\ UNCHANGED <<wire, cafRet, syncLocals, chanVars, goVars, procVars,
                   initVars, endVars>>

\* cleanup returned to main: os.Exit(1)
MainExit1 ==
    /\ Alive
    /\ pc["main"] = "m_exit1"
    /\ exitCode' = 1
    /\ UNCHANGED <<pc, wire, cafRet, syncLocals, chanVars, goVars, procVars,
                   initVars, panicked, exitTried>>

\* <-done; os.Exit(0)
MainExit0 ==
    /\ Alive
    /\ pc["main"] = "m_wait"
    /\ done
    /\ exitCode' = 0
    /\ UNCHANGED <<pc, wire, cafRet, syncLocals, chanVars, goVars, procVars,
                   initVars, panicked, exitTried>>

\* The parent process dies: the host is re-parented to init. (Only the
\* monitor's loop looks at the parent pid.)
ParentDies ==
    /\ Alive
    /\ ~orphaned
    /\ pc["mon"] = "mon_loop"
    /\ orphaned' = TRUE
    /\ UNCHANGED <<pc, wire, cafRet, syncLocals, done, parentDeath, sigChan,
                   shutdownDone, forcedKill, goVars, procVars, initVars, endVars>>

\* SIGINT or SIGTERM is delivered: signal.Notify puts it in sigChan if there
\* is room. (Only the trigger goroutine's select reads sigChan, once; a signal
\* after that stays in the buffer.)
Signal ==
    /\ Alive
    /\ sigChan = 0
    /\ pc["trig"] = "trig_select"
    /\ sigChan' = 1
    /\ UNCHANGED <<pc, wire, cafRet, syncLocals, done, parentDeath, orphaned,
                   shutdownDone, forcedKill, goVars, procVars, initVars, endVars>>

\* The monitor's tick finds the parent gone: close(parentDeath); return
MonitorTick ==
    /\ Alive
    /\ pc["mon"] = "mon_loop"
    /\ orphaned
    /\ parentDeath' = TRUE
    /\ Goto("mon", "end")
    /\ UNCHANGED <<wire, cafRet, syncLocals, done, sigChan, orphaned,
                   shutdownDone, forcedKill, goVars, procVars, initVars, endVars>>

\* case <-done: return
MonitorDone ==
    /\ Alive
    /\ pc["mon"] = "mon_loop"
    /\ done
    /\ Goto("mon", "end")
    /\ UNCHANGED <<wire, cafRet, syncLocals, chanVars, goVars, procVars,
                   initVars, endVars>>

\* case sig := <-sigChan: cleanup(server, done)
TriggerSignal ==
    /\ Alive
    /\ pc["trig"] = "trig_select"
    /\ sigChan = 1
    /\ sigChan' = 0
    /\ Goto("trig", "cl_begin")
    /\ UNCHANGED <<wire, cafRet, syncLocals, done, parentDeath, orphaned,
                   shutdownDone, forcedKill, goVars, procVars, initVars, endVars>>

\* case <-parentDeath: cleanup(server, done)
TriggerParentDeath ==
    /\ Alive
    /\ pc["trig"] = "trig_select"
    /\ parentDeath
    /\ Goto("trig", "cl_begin")
    /\ UNCHANGED <<wire, cafRet, syncLocals, chanVars, goVars, procVars,
                   initVars, endVars>>

----------------------------------------------------------------------------
\* cleanup, run by main (start failed) and by the trigger goroutine

\* if s.lspClient != nil { s.lspClient.CloseAllFiles(ctx) ...
CleanupBegin(c) ==
    /\ Alive
    /\ pc[c] = "cl_begin"
    /\ IF lspClient
       THEN EnterCloseAllFiles(c, "cl_spawn")
       ELSE Goto(c, "cl_done_check") /\ UNCHANGED <<cafRet, alone>>
    /\ UNCHANGED <<wire, openFiles, openFilesMu, uri, version, filesToClose,
                   res, cfRet, calls, period, myPeriod, cafN, cafSent,
                   chanVars, goVars, procVars, initVars, endVars>>

\* shutdownDone := make(chan struct{}); go func() { ... }()
CleanupSpawnShutdown(c) ==
    /\ Alive
    /\ pc[c] = "cl_spawn"
    /\ shutdownDone' = [shutdownDone EXCEPT ![c] = FALSE]
    /\ sdPc' = [sdPc EXCEPT ![c] = "send"]
    /\ Goto(c, "cl_select")
    /\ UNCHANGED <<wire, cafRet, syncLocals, done, parentDeath, sigChan,
                   orphaned, forcedKill, fkPc, procVars, initVars, endVars>>

\* Client.Shutdown is the `shutdown` request: Call writes it ...
Shutdown(w) == Notify(w, Msg("shutdown", NoURI, 0, 0))

ShutdownSend(c) ==
    /\ Alive
    /\ sdPc[c] = "send"
    /\ \E ok \in BOOLEAN :
        IF ok
        THEN wire' = Shutdown(wire)
        ELSE UNCHANGED wire
    /\ sdPc' = [sdPc EXCEPT ![c] = "close"]
    /\ UNCHANGED <<pc, cafRet, syncLocals, chanVars, fkPc, procVars, initVars,
                   endVars>>

\* ... and returns with the response, with an error, or when shutdownCtx
\* (500 ms) expires; then close(shutdownDone).
ShutdownClose(c) ==
    /\ Alive
    /\ sdPc[c] = "close"
    /\ shutdownDone' = [shutdownDone EXCEPT ![c] = TRUE]
    /\ sdPc' = [sdPc EXCEPT ![c] = "end"]
    /\ UNCHANGED <<pc, wire, cafRet, syncLocals, done, parentDeath, sigChan,
                   orphaned, forcedKill, fkPc, procVars, initVars, endVars>>

\* case <-shutdownDone:
CleanupShutdownCompleted(c) ==
    /\ Alive
    /\ pc[c] = "cl_select"
    /\ shutdownDone[c]
    /\ Goto(c, "cl_exit")
    /\ UNCHANGED <<wire, cafRet, syncLocals, chanVars, goVars, procVars,
                   initVars, endVars>>

\* The 1-second case going straight on to Close, without the exit notification.
CleanupShutdownTimedOutSkipsExit(c) ==
    /\ Alive
    /\ pc[c] = "cl_select"
    /\ Goto(c, "close_caf")
    /\ UNCHANGED <<wire, cafRet, syncLocals, chanVars, goVars, procVars,
                   initVars, endVars>>

\* case <-time.After(1 * time.Second):
CleanupShutdownTimedOut(c) ==
    /\ Alive
    /\ pc[c] = "cl_select"
    /\ Goto(c, "cl_exit")
    /\ UNCHANGED <<wire, cafRet, syncLocals, chanVars, goVars, procVars,
                   initVars, endVars>>

\* Client.Exit is the `exit` notification.
Exit(w) == Notify(w, Msg("exit", NoURI, 0, 0))

\* s.lspClient.Exit(ctx), its error only logged; then s.lspClient.Close()
CleanupExit(c) ==
    /\ Alive
    /\ pc[c] = "cl_exit"
    /\ \E ok \in BOOLEAN : wire' = IF ok THEN Exit(wire) ELSE wire
    /\ exitTried' = exitTried + 1
    /\ Goto(c, "close_caf")
    /\ UNCHANGED <<cafRet, syncLocals, chanVars, goVars, procVars, initVars,
                   panicked, exitCode>>

\* select { case <-done: default: ... }
CleanupDoneCheck(c) ==
    /\ Alive
    /\ pc[c] = "cl_done_check"
    /\ Goto(c, IF done THEN "cl_return" ELSE "cl_done_close")
    /\ UNCHANGED <<wire, cafRet, syncLocals, chanVars, goVars, procVars,
                   initVars, endVars>>

\* close(done), which panics on a closed channel
CleanupDoneClose(c) ==
    /\ Alive
    /\ pc[c] = "cl_done_close"
    /\ IF done
       THEN panicked' = "cleanup" /\ UNCHANGED <<pc, done>>
       ELSE done' = TRUE /\ Goto(c, "cl_return") /\ UNCHANGED panicked
    /\ UNCHANGED <<wire, cafRet, syncLocals, parentDeath, sigChan, orphaned,
                   shutdownDone, forcedKill, goVars, procVars, initVars,
                   exitCode, exitTried>>

\* The trigger goroutine waiting for the next trigger after its cleanup.
CleanupReturnTriggerLoops(c) ==
    /\ Alive
    /\ pc[c] = "cl_return"
    /\ Goto(c, IF c = "main" THEN "m_exit1" ELSE "trig_select")
    /\ UNCHANGED <<wire, cafRet, syncLocals, chanVars, goVars, procVars,
                   initVars, endVars>>

\* cleanup returns: to main, or the trigger goroutine ends.
CleanupReturn(c) ==
    /\ Alive
    /\ pc[c] = "cl_return"
    /\ Goto(c, IF c = "main" THEN "m_exit1" ELSE "end")
    /\ UNCHANGED <<wire, cafRet, syncLocals, chanVars, goVars, procVars,
                   initVars, endVars>>

----------------------------------------------------------------------------
\* Client.Close, called by cleanup

\* c.CloseAllFiles(ctx)
CloseCloseAllFiles(c) ==
    /\ Alive
    /\ pc[c] = "close_caf"
    /\ EnterCloseAllFiles(c, "close_spawn")
    /\ UNCHANGED <<wire, openFiles, openFilesMu, uri, version, filesToClose,
                   res, cfRet, calls, period, myPeriod, cafN, cafSent,
                   chanVars, goVars, procVars, initVars, endVars>>

\* forcedKill := make(chan struct{}); go func() { select ... }()
CloseSpawnWatcher(c) ==
    /\ Alive
    /\ pc[c] = "close_spawn"
    /\ forcedKill' = [forcedKill EXCEPT ![c] = FALSE]
    /\ fkPc' = [fkPc EXCEPT ![c] = "select"]
    /\ Goto(c, "close_stdin")
    /\ UNCHANGED <<wire, cafRet, syncLocals, done, parentDeath, sigChan,
                   orphaned, shutdownDone, sdPc, procVars, initVars, endVars>>

\* watcher: case <-forcedKill: return
WatcherCancelled(c) ==
    /\ Alive
    /\ fkPc[c] = "select"
    /\ forcedKill[c]
    /\ fkPc' = [fkPc EXCEPT ![c] = "end"]
    /\ UNCHANGED <<pc, wire, cafRet, syncLocals, chanVars, sdPc, procVars,
                   initVars, endVars>>

\* Cmd.Wait of the Close of c has returned.
WaitReturned(c) == pc[c] \notin {"close_stdin", "close_wait"}

\* watcher: case <-time.After(2 * time.Second): c.Cmd.Process.Kill()
WatcherKill(c) ==
    /\ Alive
    /\ fkPc[c] = "select"
    /\ kills' = kills + 1
    /\ lateKill' = (lateKill \/ WaitReturned(c))
    /\ child' = "exited"
    /\ fkPc' = [fkPc EXCEPT ![c] = "close"]
    /\ UNCHANGED <<pc, wire, cafRet, syncLocals, chanVars, sdPc, stdinClosed,
                   waited, latchCloses, initVars, endVars>>

\* close(forcedKill), which panics on a closed channel
CloseLatch(c, who) ==
    /\ latchCloses' = [latchCloses EXCEPT ![c] = @ + 1]
    /\ IF forcedKill[c]
       THEN panicked' = who /\ UNCHANGED forcedKill
       ELSE forcedKill' = [forcedKill EXCEPT ![c] = TRUE] /\ UNCHANGED panicked

\* watcher: close(forcedKill)
WatcherClose(c) ==
    /\ Alive
    /\ fkPc[c] = "close"
    /\ CloseLatch(c, "watcher")
    /\ fkPc' = [fkPc EXCEPT ![c] = "end"]
    /\ UNCHANGED <<pc, wire, cafRet, syncLocals, done, parentDeath, sigChan,
                   orphaned, shutdownDone, sdPc, child, stdinClosed, kills,
                   lateKill, waited, initVars, exitCode, exitTried>>

\* c.stdin.Close(): a second Close of the pipe only returns an error
CloseStdin(c) ==
    /\ Alive
    /\ pc[c] = "close_stdin"
    /\ stdinClosed' = IF stdinClosed = 0 THEN 1 ELSE stdinClosed
    /\ Goto(c, "close_wait")
    /\ UNCHANGED <<wire, cafRet, syncLocals, chanVars, goVars, child, kills,
                   lateKill, waited, latchCloses, initVars, endVars>>

\* The language server exits (on the end of its input, or for its own reasons).
ChildExits ==
    /\ Alive
    /\ child = "running"
    /\ child' = "exited"
    /\ UNCHANGED <<pc, wire, cafRet, syncLocals, chanVars, goVars, stdinClosed,
                   kills, lateKill, waited, latchCloses, initVars, endVars>>

\* err := c.Cmd.Wait() returns once the process has exited
CloseWait(c) ==
    /\ Alive
    /\ pc[c] = "close_wait"
    /\ child = "exited"
    /\ waited' = waited + 1
    /\ Goto(c, "close_latch")
    /\ UNCHANGED <<wire, cafRet, syncLocals, chanVars, goVars, child,
                   stdinClosed, kills, lateKill, latchCloses, initVars, endVars>>

\* close(forcedKill); return err
CloseReturn(c) ==
    /\ Alive
    /\ pc[c] = "close_latch"
    /\ CloseLatch(c, "Close")
    /\ IF forcedKill[c] THEN UNCHANGED pc ELSE Goto(c, "cl_done_check")
    /\ UNCHANGED <<wire, cafRet, syncLocals, done, parentDeath, sigChan,
                   orphaned, shutdownDone, goVars, child, stdinClosed, kills,
                   lateKill, waited, initVars, exitCode, exitTried>>

----------------------------------------------------------------------------
\* The host process

\* The goroutines that call the document synchronizer while the host runs.
HostWorkers == {"w1"}

\* A tool handler or the workspace watcher opens a file.
HostOpenFile(p, f) ==
    /\ watching
    /\ CallOpenFile(p, f)

HostInit ==
    /\ ClientInit
    /\ HostState
    /\ lspClient = FALSE
    /\ child = "none"
    /\ pc = [p \in Procs |->
                CASE p = "main" -> "m_start"
                  [] p = "mon" -> "mon_loop"
                  [] p = "trig" -> "trig_select"
                  [] OTHER -> "idle"]

\* The steps of cleanup and of the Close it calls, run by goroutine c, with
\* the two goroutines they start.
CleanupStep(c) ==
    \/ CleanupBegin(c)
    \/ CleanupSpawnShutdown(c)
    \/ ShutdownSend(c)
    \/ ShutdownClose(c)
    \/ CleanupShutdownCompleted(c)
    \/ CleanupShutdownTimedOut(c)
    \/ CleanupExit(c)
    \/ CloseCloseAllFiles(c)
    \/ CloseSpawnWatcher(c)
    \/ WatcherCancelled(c)
    \/ WatcherKill(c)
    \/ WatcherClose(c)
    \/ CloseStdin(c)
    \/ CloseWait(c)
    \/ CloseReturn(c)
    \/ CleanupDoneCheck(c)
    \/ CleanupDoneClose(c)
    \/ CleanupReturn(c)

\* The steps of the document synchronizer that the host's goroutines take.
HostSyncStep(p) ==
    \/ OpenFileLock(p)
    \/ OpenFileCheck(p)
    \/ OpenFileRead(p)
    \/ OpenFileNotify(p)
    \/ OpenFileLock2(p)
    \/ OpenFileStore(p)
    \/ CloseFileLock(p)
    \/ CloseFileCheck(p)
    \/ CloseFileNotify(p)
    \/ CloseFileLock2(p)
    \/ CloseFileDelete(p)
    \/ CloseAllFilesLock(p)
    \/ CloseAllFilesCollect(p)
    \/ CloseAllFilesLoop(p)

\* A run of the host that gets no signal and keeps its parent: main starts
\* the server, may fail at any step of it, and then runs cleanup itself.
StartNext ==
    \/ InitChdir
    \/ InitNewClient
    \/ InitializeCallSend
    \/ InitializeCallReturn
    \/ InitializeNotify
    \/ InitializeRegister
    \/ InitializeInitialized
    \/ InitializeReturn
    \/ InitWatch
    \/ StartRegisterTools
    \/ StartServeReturns
    \/ MainStartFailed
    \/ MainExit1
    \/ MonitorDone
    \/ ChildExits
    \/ CleanupStep("main")
    \/ \E p \in HostWorkers, f \in Paths : HostOpenFile(p, f)
    \/ \E p \in HostWorkers \cup {"main"} : HostSyncStep(p)

SpecStart == HostInit /\ [][StartNext]_vars

\* The host when initializeLSP has returned nil: the client is created and
\* initialized (InitializeLSPClient wrote its three messages and returned the
\* result), the workspace watcher is started, main is about to register its
\* tools; the trigger goroutine and the monitor wait.
StartedInit ==
    /\ openFiles = [u \in {} |-> 0]
    /\ openFilesMu = NoProc
    /\ wire = <<Msg("initialize", NoURI, 0, 0), Msg("initialized", NoURI, 0, 0),
                Msg("initialized", NoURI, 0, 0)>>
    /\ uri = [p \in Procs |-> NoURI]
    /\ version = [p \in Procs |-> 0]
    /\ filesToClose = [p \in Procs |-> <<>>]
    /\ res = [p \in Procs |-> "none"]
    /\ cfRet = [p \in Procs |-> "idle"]
    /\ cafRet = [p \in Procs |-> "idle"]
    /\ calls = 0
    /\ period = [u \in URIs |-> 0]
    /\ myPeriod = [p \in Procs |-> 0]
    /\ cafN = [p \in Procs |-> 0]
    /\ cafSent = [p \in Procs |-> 0]
    /\ alone = [p \in Procs |-> FALSE]
    /\ lspClient = TRUE
    /\ watching = TRUE
    /\ done = FALSE
    /\ parentDeath = FALSE
    /\ sigChan = 0
    /\ orphaned = FALSE
    /\ shutdownDone = [c \in Cleaners |-> FALSE]
    /\ forcedKill = [c \in Cleaners |-> FALSE]
    /\ sdPc = [c \in Cleaners |-> "off"]
    /\ fkPc = [c \in Cleaners |-> "off"]
    /\ child = "running"
    /\ stdinClosed = 0
    /\ panicked = "no"
    /\ exitCode = -1
    /\ initResult = 1
    /\ result = 1
    /\ handlers = TRUE
    /\ exitTried = 0
    /\ kills = 0
    /\ lateKill = FALSE
    /\ waited = 0
    /\ latchCloses = [c \in Cleaners |-> 0]
    /\ pc = [p \in Procs |->
                CASE p = "main" -> "st_tools"
                  [] p = "mon" -> "mon_loop"
                  [] p = "trig" -> "trig_select"
                  [] OTHER -> "idle"]

\* A run of the started host in which no tool is called and no file is opened:
\* start may still fail (registerTools, ServeStdio) or serve until its input
\* ends; a signal may arrive and the parent may die at any time; cleanup is
\* run by the trigger goroutine, by main, or by both.
ShutdownNext ==
    \/ StartRegisterTools
    \/ StartServeReturns
    \/ MainStartFailed
    \/ MainExit1
    \/ MainExit0
    \/ ParentDies
    \/ Signal
    \/ MonitorTick
    \/ MonitorDone
    \/ TriggerSignal
    \/ TriggerParentDeath
    \/ ChildExits
    \/ \E c \in Cleaners : CleanupStep(c)
    \/ \E c \in Cleaners : CloseAllFilesLock(c)
    \/ \E c \in Cleaners : CloseAllFilesCollect(c)
    \/ \E c \in Cleaners : CloseAllFilesLoop(c)

SpecShutdown == StartedInit /\ [][ShutdownNext]_vars

----------------------------------------------------------------------------
\* Properties of the document synchronizer

IsChange(m) == m.method = "textDocument/didChange"

\* C4: when a CloseAllFiles that found N open URIs returns (and no other call
\* overlapped it), it has sent exactly N didClose notifications and the
\* open-file set is empty, also when some CloseFile failed.
C4_CloseAllFilesEmptiesTheSet ==
    \A p \in Workers :
        (pc[p] = "idle" /\ res[p] = "closed_all" /\ alone[p])
            => (cafSent[p] = cafN[p] /\ DOMAIN openFiles = {})

\* C5: an OpenFile whose lookup finds the URI in the open-file set returns nil
\* at once: it sends nothing and leaves every stored Version as it is.
C5_OpenTwiceIsIdempotent ==
    [][\A p \in Workers :
        (pc[p] = "of_check" /\ pc'[p] # "of_check" /\ IsOpen(uri[p]))
            => /\ pc'[p] = "idle"
               /\ ~IsError(res'[p])
               /\ wire' = wire
               /\ openFiles' = openFiles]_vars

\* An OpenFile returned as already open for a URI that NotifyChange had raised
\* to version 2, which it still has.
C5_Witness ==
    \E p \in Workers :
        /\ pc[p] = "idle"
        /\ res[p] = "already_open"
        /\ IsOpen(uri[p])
        /\ openFiles[uri[p]] = 2

\* C6: a NotifyChange whose lookup does not find the URI returns an error, and
\* no step of it up to that return writes a message or changes the open-file
\* set or a stored Version.
C6_ChangeOfUnopenedFails ==
    [][\A p \in Workers :
        /\ (pc[p] \in {"nc_read", "nc_lock"} /\ pc'[p] # pc[p])
            => (wire' = wire /\ openFiles' = openFiles)
        /\ (pc[p] = "nc_incr" /\ pc'[p] # "nc_incr" /\ ~IsOpen(uri[p]))
            => /\ pc'[p] = "idle"
               /\ IsError(res'[p])
               /\ wire' = wire
               /\ openFiles' = openFiles]_vars

\* A NotifyChange failed as unopened while another URI is open.
C6_Witness ==
    \E p \in Workers :
        /\ pc[p] = "idle"
        /\ res[p] = "unopened"
        /\ ~IsOpen(uri[p])
        /\ DOMAIN openFiles # {}

\* C7: no two didChange notifications of one open period of a URI carry the
\* same version (each NotifyChange adds exactly 1 to the stored Version and
\* sends the value it stored).
C7_ChangeVersionsAreDistinct ==
    \A i, j \in DOMAIN wire :
        (i < j /\ IsChange(wire[i]) /\ IsChange(wire[j])
         /\ wire[i].uri = wire[j].uri /\ wire[i].per = wire[j].per)
            => wire[i].version # wire[j].version

\* C8: while a URI stays in the open-file set, its stored Version is at least
\* 1 and never decreases.
C8_VersionNeverDecreases ==
    [][\A u \in URIs :
        /\ (u \in DOMAIN openFiles') => openFiles'[u] >= 1
        /\ (IsOpen(u) /\ u \in DOMAIN openFiles')
            => openFiles'[u] >= openFiles[u]]_vars

IsOpenMsg(m) == m.method = "textDocument/didOpen"

IsCloseMsg(m) == m.method = "textDocument/didClose"

\* The positions on the wire of the didOpen, didClose and didChange
\* notifications for URI u.
Opens(u) == {i \in DOMAIN wire : wire[i].uri = u /\ IsOpenMsg(wire[i])}

Closes(u) == {i \in DOMAIN wire : wire[i].uri = u /\ IsCloseMsg(wire[i])}

Changes(u) == {i \in DOMAIN wire : wire[i].uri = u /\ IsChange(wire[i])}

\* C13: an OpenFile whose file read or whose didOpen send fails returns an
\* error; no step of it has added its URI to the open-file set or changed the
\* rest of the set, and up to a failed read it has sent nothing.
C13_FailedOpenLeavesClosed ==
    [][\A p \in Workers :
        /\ (pc[p] \in {"of_lock1", "of_check", "of_read"} /\ pc'[p] # pc[p])
            => (wire' = wire /\ openFiles' = openFiles)
        /\ (pc[p] = "of_read" /\ pc'[p] = "idle")
            => res'[p] = "read_error"
        /\ (pc[p] = "of_notify" /\ pc'[p] = "idle")
            => /\ res'[p] = "notify_error"
               /\ wire' = wire
               /\ openFiles' = openFiles]_vars

\* An OpenFile failed on its didOpen send (its URI was never opened, so the
\* error is OpenFile's), its URI is not open and another URI is.
C13_Witness ==
    \E p \in Workers :
        /\ pc[p] = "idle"
        /\ res[p] = "notify_error"
        /\ Opens(uri[p]) = {}
        /\ ~IsOpen(uri[p])
        /\ DOMAIN openFiles # {}

\* C14: a CloseFile whose lookup does not find the URI returns nil and changes
\* nothing; one that finds it sends one didClose and then removes the URI;
\* if that send fails it returns the error and leaves the open-file set as
\* it is.
C14_CloseFileSemantics ==
    [][\A p \in Workers :
        /\ (pc[p] = "cf_check" /\ pc'[p] # pc[p] /\ ~IsOpen(uri[p]))
            => /\ pc'[p] = cfRet[p]
               /\ res'[p] = "already_closed"
               /\ wire' = wire
               /\ openFiles' = openFiles
        /\ (pc[p] = "cf_check" /\ pc'[p] # pc[p] /\ IsOpen(uri[p]))
            => /\ pc'[p] = "cf_notify"
               /\ wire' = wire
               /\ openFiles' = openFiles
        /\ (pc[p] = "cf_notify" /\ pc'[p] = "cf_lock2")
            => /\ Len(wire') = Len(wire) + 1
               /\ IsCloseMsg(wire'[Len(wire')])
               /\ wire'[Len(wire')].uri = uri[p]
               /\ openFiles' = openFiles
        /\ (pc[p] = "cf_notify" /\ pc'[p] \notin {"cf_notify", "cf_lock2"})
            => /\ pc'[p] = cfRet[p]
               /\ res'[p] = "notify_error"
               /\ wire' = wire
               /\ openFiles' = openFiles
        /\ (pc[p] \in {"cf_lock1", "cf_lock2"} /\ pc'[p] # pc[p])
            => (wire' = wire /\ openFiles' = openFiles)
        /\ (pc[p] = "cf_delete" /\ pc'[p] # pc[p])
            => /\ res'[p] = "closed"
               /\ wire' = wire
               /\ openFiles' = MapDelete(openFiles, uri[p])
               /\ uri[p] \notin DOMAIN openFiles']_vars

\* One CloseFile returned nil for a URI it did not find; another worker's
\* CloseFile has sent a didClose and removed its URI.
C14_Witness ==
    \E p, q \in Workers :
        /\ pc[p] = "idle" /\ res[p] = "already_closed"
        /\ pc[q] = "idle" /\ res[q] = "closed"
        /\ Closes(uri[q]) # {}
        /\ ~IsOpen(uri[q])

\* C16: for every URI, two didOpen notifications are never written without a
\* didClose for that URI between them, also when OpenFile calls overlap.
C16_OneOpenPerPeriod ==
    \A u \in URIs :
        \A i, j \in Opens(u) :
            i < j => \E k \in Closes(u) : i < k /\ k < j

\* C17: for every URI, no didChange is written after a didClose for it
\* unless a didOpen for it was written in between.
C17_NoChangeAfterClose ==
    \A u \in URIs :
        \A k \in Closes(u), j \in Changes(u) :
            k < j => \E i \in Opens(u) : k < i /\ i < j

\* C18: the didChange notifications of one open period of a URI are written
\* in strictly increasing version order.
C18_ChangesInVersionOrder ==
    \A i, j \in DOMAIN wire :
        (i < j /\ IsChange(wire[i]) /\ IsChange(wire[j])
         /\ wire[i].uri = wire[j].uri /\ wire[i].per = wire[j].per)
            => wire[i].version < wire[j].version

\* The didChange notifications written for u since its last didOpen.
ChangesSinceOpen(u) ==
    {j \in Changes(u) : \A i \in Opens(u) : i < j}

\* C19: whenever no document-sync call is in progress, the stored Version of
\* every open URI is 1 plus the number of didChange notifications written
\* for it since its didOpen.
C19_VersionCountsChanges ==
    (\A p \in Workers : pc[p] = "idle")
        => \A u \in DOMAIN openFiles :
            openFiles[u] = 1 + Cardinality(ChangesSinceOpen(u))

\* The statements between a Lock and its Unlock.
Locked == {"of_check", "of_store", "nc_incr", "cf_check", "cf_delete",
           "caf_collect"}

\* The statements that send a notification or call CloseFile.
Sending == {"of_notify", "nc_notify", "cf_notify", "caf_loop"}

\* The next statement of the call that goroutine p is in.
SyncStep(p) ==
    \/ HostSyncStep(p)
    \/ NotifyChangeRead(p)
    \/ NotifyChangeLock(p)
    \/ NotifyChangeIncrement(p)
    \/ NotifyChangeNotify(p)

\* C21: a goroutine holds openFilesMu only between a Lock and the Unlock of
\* the same critical section: never while it sends a notification, calls
\* CloseFile or has returned. So the calls cannot deadlock on the lock: a
\* goroutine inside a call can take its next step, or it waits for the lock
\* and the holder can take its next step.
C21_LockNotHeldAcrossSend ==
    /\ openFilesMu \in Workers \cup {NoProc}
    /\ \A p \in Workers :
        /\ openFilesMu = p => pc[p] \in Locked
        /\ pc[p] \in Sending \cup {"idle"} => openFilesMu # p
        /\ pc[p] # "idle"
            => \/ ENABLED SyncStep(p)
               \/ /\ openFilesMu \in Workers \ {p}
                  /\ ENABLED SyncStep(openFilesMu)

\* A CloseAllFiles is in the CloseFile it called, at the send of didClose,
\* while another goroutine holds the lock.
C21_Witness ==
    \E p, q \in Workers :
        /\ p # q
        /\ pc[p] = "cf_notify"
        /\ cfRet[p] = "caf_loop"
        /\ openFilesMu = q
        /\ pc[q] \in Locked

----------------------------------------------------------------------------
\* Properties of the lifecycle

\* The positions of the messages of a method on the wire.
Sent(method) == {i \in DOMAIN wire : wire[i].method = method}

\* Goroutine c is in Close, after Close started its forced-kill watcher.
InClose(c) == pc[c] \in {"close_stdin", "close_wait", "close_latch"}

\* Goroutine c is in the CloseAllFiles that cleanup calls first.
InFirstCloseAllFiles(c) ==
    /\ cafRet[c] = "cl_spawn"
    /\ pc[c] \in {"caf_lock", "caf_collect", "caf_loop", "cf_lock1", "cf_check",
                  "cf_notify", "cf_lock2", "cf_delete"}

\* C1: Close always returns to its caller: no run of Close ends in a crash of
\* the process instead of a return.
C1_CloseAlwaysReturns ==
    \A c \in Cleaners : InClose(c) => panicked = "no"

\* C2: in every run of Close the latch forcedKill is closed at most once,
\* Process.Kill is called at most once, and never after Cmd.Wait has returned.
C2_LatchIsSetOnce ==
    /\ \A c \in Cleaners : latchCloses[c] <= 1
    /\ kills <= 1
    /\ ~lateKill

\* C3: when InitializeLSPClient returns without error, the wire holds exactly
\* one initialize request followed by exactly one initialized notification,
\* and the value returned is the result of the initialize response.
C3_InitializeHandshake ==
    pc["main"] = "init_watch"
        => /\ Cardinality(Sent("initialize")) = 1
           /\ Cardinality(Sent("initialized")) = 1
           /\ \A i \in Sent("initialize"), j \in Sent("initialized") : i < j
           /\ initResult = result

\* C9 as claimed: the exit notification is never written before the shutdown
\* request has been written, and stdin is never closed before the exit
\* notification was attempted.
C9_ExitFollowsShutdownOnTheWire ==
    /\ \A j \in Sent("exit") : \E i \in Sent("shutdown") : i < j
    /\ stdinClosed > 0 => exitTried > 0

\* C9 as it holds: the shutdown steps are started in the fixed order. The
\* shutdown request is started (its goroutine spawned) only after cleanup's
\* CloseAllFiles returned; the exit notification is attempted only after the
\* shutdown request was started (it may have failed, or may still be
\* unwritten when the 1-second wait expires); stdin is closed only after the
\* exit notification was attempted; Cmd.Wait returns only after stdin was
\* closed.
C9_ShutdownStepsInOrder ==
    /\ \A c \in Cleaners :
        sdPc[c] # "off" => (pc[c] # "cl_begin" /\ ~InFirstCloseAllFiles(c))
    /\ Sent("shutdown") # {} => \E c \in Cleaners : sdPc[c] # "off"
    /\ exitTried > 0 => \E c \in Cleaners : sdPc[c] # "off"
    /\ Sent("exit") # {} => exitTried > 0
    /\ stdinClosed > 0 => exitTried > 0
    /\ waited > 0 => stdinClosed > 0

\* A complete shutdown: a didClose, then the shutdown request, then the exit
\* notification were written, stdin was closed and Cmd.Wait returned.
C9_Witness ==
    /\ \E i \in Sent("textDocument/didClose"), j \in Sent("shutdown"),
          k \in Sent("exit") : i < j /\ j < k
    /\ stdinClosed = 1
    /\ waited = 1

\* C10: whatever the outcome of the shutdown request, a cleanup that is past
\* its wait for it goes on to the exit notification, to Close and to
\* close(done): it never ends (in a crash) with `done` still open.
C10_CleanupReachesDone ==
    \A c \in Cleaners :
        (pc[c] \in {"cl_exit", "close_caf", "close_spawn", "close_stdin",
                    "close_wait", "close_latch", "cl_done_check"} /\ ~done)
            => panicked = "no"

\* C11: during shutdown the child's stdin is closed exactly once and Cmd.Wait
\* is called (and returns) exactly once, whichever triggers ran cleanup: never
\* more than once, and once when the host has exited.
C11_HandleReleasedOnce ==
    /\ stdinClosed <= 1
    /\ waited <= 1
    /\ (exitCode # -1 /\ lspClient) => (stdinClosed = 1 /\ waited = 1)

\* C12: when the initialize call fails, InitializeLSPClient returns an error
\* having sent no initialized notification and registered no handler; after
\* a failed InitializeLSPClient the workspace watcher never starts and no
\* tool is served, start fails and main runs cleanup on the client that was
\* created, and the host never exits with code 0.
C12_InitFailureAbortsStartup ==
    /\ [](initResult = -1
            => /\ lspClient
               /\ ~watching
               /\ pc["main"] \notin {"init_watch", "st_tools", "st_serve", "m_wait"}
               /\ exitCode \in {-1, 1}
               /\ exitCode = 1 => (done /\ exitTried >= 1 /\ waited >= 1))
    /\ [][/\ (pc["main"] \in {"ilc_send", "ilc_wait"} /\ pc'["main"] = "m_failed")
              => /\ initResult' = -1
                 /\ Sent("initialized") = {}
                 /\ wire' = wire
                 /\ ~handlers'
          /\ (initResult = -1 /\ pc["main"] = "m_failed" /\ pc'["main"] # "m_failed")
              => pc'["main"] = "cl_begin"]_vars

\* The initialize request was written and its call failed: no initialized
\* notification, no handler; cleanup has run and main has exited with code 1.
C12_Witness ==
    /\ initResult = -1
    /\ Sent("initialize") # {}
    /\ Sent("initialized") = {}
    /\ ~handlers
    /\ ~watching
    /\ done
    /\ exitCode = 1

\* C15: the trigger goroutine starts cleanup only out of its select, on a
\* buffered signal or on the closed parentDeath channel, and it can do so
\* whenever one of the two is there; it never returns to the select, so it
\* executes cleanup at most once. parentDeath is closed only by the monitor,
\* on a detected orphaning, and the monitor returns with that step: it is
\* closed at most once. The only step the monitor takes once done is closed
\* is to stop.
C15_TriggersRunCleanupOnce ==
    /\ [](parentDeath => pc["mon"] = "end")
    /\ []((Alive /\ pc["trig"] = "trig_select" /\ (sigChan = 1 \/ parentDeath))
            => ENABLED (TriggerSignal \/ TriggerParentDeath))
    /\ []((Alive /\ pc["mon"] = "mon_loop" /\ done) => ENABLED MonitorDone)
    /\ [][/\ (pc["trig"] = "trig_select" /\ pc'["trig"] # "trig_select")
              => (pc'["trig"] = "cl_begin" /\ (sigChan = 1 \/ parentDeath))
          /\ (pc["trig"] # "trig_select") => (pc'["trig"] # "trig_select")
          /\ (pc["trig"] # "cl_begin" /\ pc'["trig"] = "cl_begin")
              => pc["trig"] = "trig_select"
          /\ (parentDeath' # parentDeath)
              => /\ ~parentDeath
                 /\ orphaned
                 /\ pc["mon"] = "mon_loop"
                 /\ pc'["mon"] = "end"
          /\ (pc["mon"] = "end") => (pc'["mon"] = "end")
          /\ (done /\ pc["mon"] # pc'["mon"]) => pc'["mon"] = "end"]_vars

\* The parent died: the monitor closed parentDeath and returned, the trigger
\* goroutine ran cleanup to its end and done is closed.
C15_Witness ==
    /\ parentDeath
    /\ sigChan = 0
    /\ pc["mon"] = "end"
    /\ pc["trig"] = "end"
    /\ pc["main"] = "m_wait"
    /\ done

\* C20: done is closed at most once: no execution of cleanup reaches
\* close(done) when done is already closed (which is a panic of cleanup).
C20_DoneClosedOnce == panicked # "cleanup"

====
